---- MODULE Spec2Model ----
\* Feature-history engine of compas.datastructures.assembly.part:
\* a Part owns an original shape, a current shape, an ordered list of Features
\* and a deque of transformations.  Python objects are modelled with an explicit
\* identity (field id), so that aliasing (restore) and copying (copy.deepcopy)
\* are told apart.  The boolean / trim kernels are pluggables that live outside
\* part.py: a shape records the kernel invocations that produced it.
EXTENDS Integers, Sequences, FiniteSets, TLC

VARIABLES original, current, features, heap, transformations, result, callers

vars == <<original, current, features, heap, transformations, result, callers>>

\* ---------------------------------------------------------------- bounds
\* Number of Feature objects ever constructed by add_feature on the Part.
MaxFeatures == 2
\* Number of kernel invocations recorded in one shape.
MaxShapeLen == 3
\* Number of transformations pushed on the Part.
MaxTransforms == 1
\* Number of transformations pushed where their order is observed.
MaxStack == 2

\* Number of Features constructed where the order of several survivors of a
\* removal is observed.
MaxListed == 3

\* ---------------------------------------------------------------- values
\* None, where a shape is expected (Feature.previous_geometry before apply).
NoShape == [id |-> -1, kind |-> "None", base |-> "None", hist |-> <<>>]

MeshGeometry(id, base, hist) ==
    [id |-> id, kind |-> "MeshGeometry", base |-> base, hist |-> hist]

BrepGeometry(id, base, hist) ==
    [id |-> id, kind |-> "BrepGeometry", base |-> base, hist |-> hist]

\* The value of a shape object: everything but its identity.
Value(shape) == [kind |-> shape.kind, base |-> shape.base, hist |-> shape.hist]

\* Operands a caller hands to add_feature: a mesh shape and a cutting plane
\* wrapped in a BrepGeometry.
Operands ==
    { [kind |-> "MeshGeometry", name |-> "A"],
      [kind |-> "BrepGeometry", name |-> "P"] }

\* A Python str, as met by Part.data's setter when it unpacks a dict.
StrObj(s) == [kind |-> "str", name |-> s]

OperationNames == {"union", "difference", "trim", "bogus"}

Transforms == {"T1"}

\* Transformations that can be told apart on the stack.
StackTransforms == {"T1", "T2"}

\* Callers that may run add_feature on the Part at the same time.
Callers == {"a", "b"}

\* Where each caller is in its add_feature call (pc), the Feature it
\* constructed and the shape its kernel returned and it has not installed
\* yet; lock is the one exclusive lock of the Part the callers agreed on:
\* "unused" when they use none, "free", or the caller holding it.
NoCallers ==
    [lock |-> "unused",
     at |-> [c \in Callers |->
                [pc |-> "idle", feature |-> 0,
                 made |-> [kind |-> "None", base |-> "None", hist |-> <<>>]]]]

\* Outcomes of one kernel invocation on a shape of the given kind: a result,
\* an exception, or (trim only) an empty result list.
KernelOutcomes(kind) ==
    IF kind = "MeshGeometry" THEN {"ok", "raise"} ELSE {"ok", "raise", "empty"}

\* The exceptions the methods raise, by type and message.
TypeMismatch == "TypeError: Cannot mix Brep geometry with mesh operations or vice versa."
UnknownOperation == "ValueError: Operation unknown."
UnassociatedFeature == "FeatureError: This feature is not associated with any Part!"
FeatureNotFound == "AssertionError: Part does not contain the requested feature!"
EmptyHistory == "AssertionError: No features to replay!"
NoResult == "AssertionError: Expected at least one Brep in result. Got zero or None."
NoFeatureClass == "AttributeError: object has no attribute 'FEATURE_CLASS'"
NoTransform == "AttributeError: 'NoneType' object has no attribute 'transform'"
NoVerticesAndFaces == "AttributeError: 'BrepGeometry' object has no attribute 'to_vertices_and_faces'"
\* Whatever a kernel raises when it fails.
KernelError == "kernel raised"
\* Whatever frame_to_rhino raises when what it is handed is not a Frame.
ConversionError == "frame_to_rhino raised"

\* PartGeometry.FEATURE_CLASS of MeshGeometry / BrepGeometry.
FEATURE_CLASS(kind) ==
    IF kind = "MeshGeometry" THEN "MeshFeature" ELSE "BrepFeature"

\* MeshFeature.ALLOWED_OPERATIONS / BrepFeature.ALLOWED_OPERATIONS.
ALLOWED_OPERATIONS(cls) ==
    IF cls = "MeshFeature"
    THEN [union |-> "boolean_union_mesh_mesh",
          difference |-> "boolean_difference_mesh_mesh",
          intersection |-> "boolean_intersection_mesh_mesh"]
    ELSE [trim |-> "trim_brep_with_plane"]

\* Feature.get_operation_name_by_value: the inverse of ALLOWED_OPERATIONS.
get_operation_name_by_value(cls, value) ==
    CHOOSE k \in DOMAIN ALLOWED_OPERATIONS(cls) : ALLOWED_OPERATIONS(cls)[k] = value

\* Feature.__init__ (after the operation name was accepted).
Feature(cls, geometry, operation) ==
    [cls |-> cls,
     operation |-> ALLOWED_OPERATIONS(cls)[operation],
     feature_geometry |-> geometry,
     part |-> FALSE,
     previous_geometry |-> NoShape]

\* compas_rhino.conversions.frame_to_rhino, followed by Flip: the cutting
\* plane of the trim, made of the Frame an operand wraps.  A BrepGeometry
\* operand wraps a Frame, a MeshGeometry operand wraps a mesh, of which no
\* plane can be made.
frame_to_rhino(operand) ==
    IF operand.kind = "BrepGeometry"
    THEN [error |-> "ok", plane |-> operand]
    ELSE [error |-> ConversionError, plane |-> operand]

\* The pluggable kernels (boolean_*_mesh_mesh, trim_brep_with_plane): pure
\* functions of the part's shape and the operand; the result records the call.
Kernel(operation, hist, geometry) == Append(hist, <<operation, geometry.name>>)

\* What trim_brep_with_plane returns: a list of breps, the trimmed one first,
\* or nothing.
TrimKernel(operation, hist, geometry, outcome) ==
    IF outcome = "empty"
    THEN <<>>
    ELSE <<Kernel(operation, hist, geometry), Append(hist, <<operation, "offcut">>)>>

\* ---------------------------------------------------------------- objects
Min(S) == CHOOSE n \in S : \A m \in S : n <= m

\* Identities of the shape objects reachable from the Part or from a Feature
\* the caller may still hold.
Live(p) ==
    ({0, p.current.id} \cup {p.heap[f].previous_geometry.id : f \in DOMAIN p.heap})
        \ {-1}

\* The identity of a newly allocated object: one no live object has.
NewId(used) == Min((0 .. Cardinality(used)) \ used)

\* copy.deepcopy of a shape: same value, new identity.
deepcopy(shape, used) == [shape EXCEPT !.id = NewId(used)]

\* The Part as the methods see it.
Self ==
    [original |-> original, current |-> current, features |-> features,
     heap |-> heap, transformations |-> transformations, error |-> "ok", ret |-> -1]

\* ---------------------------------------------------------------- Feature
\* A snapshot that keeps the shape object itself instead of a copy.
NoDeepcopy_store_previous_geometry(p, f) ==
    [p EXCEPT !.heap[f].part = TRUE, !.heap[f].previous_geometry = p.current]

\* Feature._store_previous_geometry
_store_previous_geometry(p, f) ==
    [p EXCEPT !.heap[f].part = TRUE,
              !.heap[f].previous_geometry = deepcopy(p.current, Live(p))]

\* A pick that takes the last brep of the list.
PickLast_pick_resulting_brep(brep_list) ==
    IF brep_list = <<>>
    THEN [error |-> NoResult, brep |-> <<>>]
    ELSE [error |-> "ok", brep |-> brep_list[Len(brep_list)]]

\* BrepFeature._pick_resulting_brep: the exception, or the brep returned.
_pick_resulting_brep(brep_list) ==
    IF brep_list = <<>>
    THEN [error |-> NoResult, brep |-> <<>>]
    ELSE [error |-> "ok", brep |-> brep_list[1]]

\* MeshFeature._apply_feature / BrepFeature._apply_feature.  The trim is made
\* on the part's geometry moved to the part's frame and its result is moved
\* back to the world frame: the two moves cancel and leave no trace in the
\* value.  A MeshFeature asks the part's shape, then its operand, for
\* to_vertices_and_faces, which a BrepGeometry does not have: it stops there
\* when either of them is one, before the kernel is invoked.  A BrepFeature
\* makes the cutting plane of its operand first, and stops there when the
\* operand wraps no Frame.
_apply_feature(p, f, outcome) ==
    LET feature == p.heap[f]
        hist == Kernel(feature.operation, p.current.hist, feature.feature_geometry)
        rhino_plane == frame_to_rhino(feature.feature_geometry)
        breps == TrimKernel(feature.operation, p.current.hist, rhino_plane.plane,
                            outcome)
    IN  IF feature.cls = "MeshFeature"
        THEN IF p.current.kind # "MeshGeometry"
             THEN [p EXCEPT !.error = NoVerticesAndFaces]
             ELSE IF feature.feature_geometry.kind # "MeshGeometry"
                  THEN [p EXCEPT !.error = NoVerticesAndFaces]
                  ELSE IF outcome = "ok"
                       THEN [p EXCEPT !.current =
                                          MeshGeometry(NewId(Live(p)), p.current.base,
                                                       hist)]
                       ELSE [p EXCEPT !.error = KernelError]
        ELSE IF rhino_plane.error # "ok"
             THEN [p EXCEPT !.error = rhino_plane.error]
             ELSE IF outcome = "raise"
                  THEN [p EXCEPT !.error = KernelError]
                  ELSE IF _pick_resulting_brep(breps).error # "ok"
                       THEN [p EXCEPT !.error = _pick_resulting_brep(breps).error]
                       ELSE [p EXCEPT !.current =
                                          BrepGeometry(NewId(Live(p)), p.current.base,
                                                       _pick_resulting_brep(breps).brep)]

\* An apply that runs the kernel before it takes the snapshot.
KernelFirst_apply(p, f, outcome) ==
    _store_previous_geometry(_apply_feature(p, f, outcome), f)

\* Feature.apply
apply(p, f, outcome) ==
    _apply_feature(_store_previous_geometry(p, f), f, outcome)

\* A restore that installs the snapshot without asking for the part.
Unchecked_restore(p, f) ==
    [p EXCEPT !.current = p.heap[f].previous_geometry]

\* A restore that hands the snapshot over and keeps none.
Forget_restore(p, f) ==
    IF ~p.heap[f].part
    THEN [p EXCEPT !.error = UnassociatedFeature]
    ELSE [p EXCEPT !.current = p.heap[f].previous_geometry,
                   !.heap[f].previous_geometry = NoShape]

\* A restore that marks the Feature as spent by dropping its operation.
Spent_restore(p, f) ==
    IF ~p.heap[f].part
    THEN [p EXCEPT !.error = UnassociatedFeature]
    ELSE [p EXCEPT !.current = p.heap[f].previous_geometry,
                   !.heap[f].operation = "None"]

\* Feature.restore
restore(p, f) ==
    IF ~p.heap[f].part
    THEN [p EXCEPT !.error = UnassociatedFeature]
    ELSE [p EXCEPT !.current = p.heap[f].previous_geometry]

\* A constructor that keeps the name and leaves the lookup for later.
LazyLookup_Feature__init__(p, cls, geometry, operation) ==
    [p EXCEPT !.heap = Append(@, [cls |-> cls,
                                  operation |-> operation,
                                  feature_geometry |-> geometry,
                                  part |-> FALSE,
                                  previous_geometry |-> NoShape]),
              !.ret = Len(p.heap) + 1]

\* MeshFeature(geometry, operation) / BrepFeature(cutting_plane, operation):
\* Feature.__init__ with its check of the operation name; ret is the new
\* Feature, which nothing but the caller refers to yet.
Feature__init__(p, cls, geometry, operation) ==
    IF operation \notin DOMAIN ALLOWED_OPERATIONS(cls)
    THEN [p EXCEPT !.error = UnknownOperation]
    ELSE [p EXCEPT !.heap = Append(@, Feature(cls, geometry, operation)),
                   !.ret = Len(p.heap) + 1]

\* ---------------------------------------------------------------- Part
\* Part.__init__(geometry=shape)
Part(shape) ==
    [original |-> shape, current |-> deepcopy(shape, {shape.id}), features |-> <<>>,
     heap |-> <<>>, transformations |-> <<>>, error |-> "ok", ret |-> -1]

\* A reset that forgets the geometry.
NoReset_restore_original_geometry(p) == p

\* A reset that installs the original shape itself.
Alias_restore_original_geometry(p) ==
    [p EXCEPT !.current = p.original]

\* Part._restore_original_geometry
_restore_original_geometry(p) ==
    [p EXCEPT !.current = deepcopy(p.original, Live(p))]

\* Part._replay_features: the loop stops at the first apply that raises.
\* failAt is the index (0-based) of the feature whose kernel does not
\* deliver, bad is what that kernel does instead.
RECURSIVE _replay_features(_, _, _, _)
_replay_features(p, from_index, failAt, bad) ==
    IF from_index >= Len(p.features)
    THEN p
    ELSE LET q == apply(p, p.features[from_index + 1],
                        IF from_index = failAt THEN bad ELSE "ok")
         IN  IF q.error # "ok"
             THEN q
             ELSE _replay_features(q, from_index + 1, failAt, bad)

\* A scan that ends without raising when it finds no feature.
NoRaise_restore_earliest_feature_in_list(p, features_to_restore) ==
    LET hits == {i \in 0 .. Len(p.features) - 1 : p.features[i + 1] \in features_to_restore}
    IN  IF hits = {}
        THEN [p EXCEPT !.ret = 0]
        ELSE [restore(p, p.features[Min(hits) + 1]) EXCEPT !.ret = Min(hits)]

\* Part._restore_earliest_feature_in_list; ret is the returned index.
\* "feature in features_to_restore" compares Feature objects, which define no
\* equality of their own: membership is by identity (the index into heap).
_restore_earliest_feature_in_list(p, features_to_restore) ==
    LET hits == {i \in 0 .. Len(p.features) - 1 : p.features[i + 1] \in features_to_restore}
    IN  IF hits = {}
        THEN [p EXCEPT !.error = FeatureNotFound]
        ELSE [restore(p, p.features[Min(hits) + 1]) EXCEPT !.ret = Min(hits)]

\* An add_feature that constructs the Feature (checking the operation name)
\* before it compares the feature classes.
OperationFirst_add_feature(p, geometry, operation, outcome) ==
    IF geometry.kind \notin {"MeshGeometry", "BrepGeometry"}
    THEN [p EXCEPT !.error = NoFeatureClass]
    ELSE LET class_ == FEATURE_CLASS(geometry.kind)
         IN  IF operation \notin DOMAIN ALLOWED_OPERATIONS(class_)
             THEN [p EXCEPT !.error = UnknownOperation]
             ELSE IF class_ # FEATURE_CLASS(p.current.kind)
                  THEN [p EXCEPT !.error = TypeMismatch]
                  ELSE LET f == Len(p.heap) + 1
                           q == [p EXCEPT !.heap = Append(@, Feature(class_, geometry, operation)),
                                          !.features = Append(@, f),
                                          !.ret = f]
                       IN  apply(q, f, outcome)

\* Part.add_feature up to self.features.append(feature); ret is the Feature.
add_feature_append(p, geometry, operation) ==
    IF geometry.kind \notin {"MeshGeometry", "BrepGeometry"}
    THEN [p EXCEPT !.error = NoFeatureClass]
    ELSE LET class_ == FEATURE_CLASS(geometry.kind)
         IN  IF class_ # FEATURE_CLASS(p.current.kind)
             THEN [p EXCEPT !.error = TypeMismatch]
             ELSE LET c == Feature__init__(p, class_, geometry, operation)
                  IN  IF c.error # "ok"
                      THEN c
                      ELSE [c EXCEPT !.features = Append(@, c.ret)]

\* A kernel invocation made on the original shape.
OnOriginal_invoke(p, f) ==
    Value(_apply_feature([p EXCEPT !.current = p.original], f, "ok").current)

\* _apply_feature up to the kernel's return: the value of the shape the
\* kernel makes of the Part's shape of this moment, not yet assigned.
invoke(p, f) ==
    Value(_apply_feature(p, f, "ok").current)

\* The assignment that ends _apply_feature: self.part._part_geometry = made.
install(p, made) ==
    [p EXCEPT !.current = [id |-> NewId(Live(p)), kind |-> made.kind,
                           base |-> made.base, hist |-> made.hist]]

\* An add_feature that does not compare the feature classes.
NoTypeCheck_add_feature(p, geometry, operation, outcome) ==
    IF geometry.kind \notin {"MeshGeometry", "BrepGeometry"}
    THEN [p EXCEPT !.error = NoFeatureClass]
    ELSE LET c == Feature__init__(p, FEATURE_CLASS(geometry.kind), geometry, operation)
         IN  IF c.error # "ok"
             THEN c
             ELSE apply([c EXCEPT !.features = Append(@, c.ret)], c.ret, outcome)

\* Part.add_feature; ret is the returned feature.
add_feature(p, geometry, operation, outcome) ==
    LET a == add_feature_append(p, geometry, operation)
    IN  IF a.error # "ok"
        THEN a
        ELSE apply(a, a.ret, outcome)

\* A clear_features that replays from the index after the earliest removed
\* feature.
ReplayAfter_clear_features(p, features_to_clear, failAt, bad) ==
    IF features_to_clear = {}
    THEN [_restore_original_geometry(p) EXCEPT !.features = <<>>]
    ELSE LET r == _restore_earliest_feature_in_list(p, features_to_clear)
             kept == SelectSeq(r.features, LAMBDA f : f \notin features_to_clear)
         IN  IF r.error # "ok"
             THEN r
             ELSE _replay_features([r EXCEPT !.features = kept], r.ret + 1, failAt, bad)

\* A clear_features that removes the earliest listed feature only.
OnlyEarliest_clear_features(p, features_to_clear, failAt, bad) ==
    IF features_to_clear = {}
    THEN [_restore_original_geometry(p) EXCEPT !.features = <<>>]
    ELSE LET r == _restore_earliest_feature_in_list(p, features_to_clear)
             kept == SelectSeq(r.features, LAMBDA f : f # r.features[r.ret + 1])
         IN  IF r.error # "ok"
             THEN r
             ELSE _replay_features([r EXCEPT !.features = kept], r.ret, failAt, bad)

\* A clear_features whose filter hands the surviving features back in the
\* opposite order.
Reversed_clear_features(p, features_to_clear, failAt, bad) ==
    IF features_to_clear = {}
    THEN [_restore_original_geometry(p) EXCEPT !.features = <<>>]
    ELSE LET r == _restore_earliest_feature_in_list(p, features_to_clear)
             kept == SelectSeq(r.features, LAMBDA f : f \notin features_to_clear)
             back == [i \in 1 .. Len(kept) |-> kept[Len(kept) + 1 - i]]
         IN  IF r.error # "ok"
             THEN r
             ELSE _replay_features([r EXCEPT !.features = back], r.ret, failAt, bad)

\* A clear_features that replays the whole list left.
FromStart_clear_features(p, features_to_clear, failAt, bad) ==
    IF features_to_clear = {}
    THEN [_restore_original_geometry(p) EXCEPT !.features = <<>>]
    ELSE LET r == _restore_earliest_feature_in_list(p, features_to_clear)
             kept == SelectSeq(r.features, LAMBDA f : f \notin features_to_clear)
         IN  IF r.error # "ok"
             THEN r
             ELSE _replay_features([r EXCEPT !.features = kept], 0, failAt, bad)

\* Part.clear_features
clear_features(p, features_to_clear, failAt, bad) ==
    IF features_to_clear = {}
    THEN [_restore_original_geometry(p) EXCEPT !.features = <<>>]
    ELSE LET r == _restore_earliest_feature_in_list(p, features_to_clear)
             kept == SelectSeq(r.features, LAMBDA f : f \notin features_to_clear)
         IN  IF r.error # "ok"
             THEN r
             ELSE _replay_features([r EXCEPT !.features = kept], r.ret, failAt, bad)

\* A replay_all_features without the check for an empty list.
Unchecked_replay_all_features(p, failAt, bad) == _replay_features(p, 0, failAt, bad)

\* A replay_all_features that resets to the original shape first.
ResetFirst_replay_all_features(p, failAt, bad) ==
    IF Len(p.features) = 0
    THEN [p EXCEPT !.error = EmptyHistory]
    ELSE _replay_features(_restore_original_geometry(p), 0, failAt, bad)

\* Part.replay_all_features
replay_all_features(p, failAt, bad) ==
    IF Len(p.features) = 0
    THEN [p EXCEPT !.error = EmptyHistory]
    ELSE _replay_features(p, 0, failAt, bad)

\* A transform that puts T at the end of the transformations.
PushBack_transform(p, T) ==
    [p EXCEPT !.transformations = Append(@, T), !.error = NoTransform]

\* Part.transform: self.shape is getattr(self._original_shape, "shape", None),
\* and neither MeshGeometry nor BrepGeometry has an attribute "shape".
transform(p, T) ==
    [p EXCEPT !.transformations = <<T>> \o @, !.error = NoTransform]

\* Transformation.from_frame_to_frame(Frame.worldXY(), self.frame)
WorldToFrame == "worldXY to frame"

\* MeshGeometry.transformed / BrepGeometry.transformed: a deep copy, and the
\* transformation made on the copy.
transformed(shape, transformation, used) ==
    [deepcopy(shape, used) EXCEPT !.hist = Append(@, <<"transform", transformation>>)]

\* MeshGeometry.get_drawable / BrepGeometry.get_drawable: the wrapped geometry.
get_drawable(shape) == [base |-> shape.base, hist |-> shape.hist]

\* A read that moves the Part's own shape to the frame.
InPlace_Part_geometry(p) ==
    [p EXCEPT !.current.hist = Append(@, <<"transform", WorldToFrame>>),
              !.ret = get_drawable(transformed(p.current, WorldToFrame, Live(p)))]

\* Part.geometry (the property); ret is the drawable returned.
Part_geometry(p) ==
    [p EXCEPT !.ret = get_drawable(transformed(p.current, WorldToFrame, Live(p)))]

\* ---------------------------------------------------------------- data
\* Feature.data (getter)
Feature_data(feature) ==
    [feature_geometry |-> feature.feature_geometry,
     operation |-> get_operation_name_by_value(feature.cls, feature.operation)]

\* Part.data (getter)
Part_data(p) ==
    [shape |-> p.original,
     features |-> [i \in 1 .. Len(p.features) |-> Feature_data(p.heap[p.features[i]])],
     transformations |-> p.transformations]

\* What "shape, operation = item" binds when item is a dict: iterating a dict
\* yields its keys, in insertion order.
DictUnpack(item) == <<StrObj("feature_geometry"), "operation">>

\* The list comprehension of Part.data's setter, from item i on:
\* [self.add_feature(shape, operation) for shape, operation in data["features"]]
\* Each add_feature appends to the list self.features still names; made is
\* the list being built of the Features the calls returned.
RECURSIVE load_features(_, _, _, _)
load_features(p, items, i, made) ==
    IF i > Len(items)
    THEN [p EXCEPT !.ret = made]
    ELSE LET q == add_feature(p, DictUnpack(items[i])[1], DictUnpack(items[i])[2], "ok")
         IN  IF q.error # "ok"
             THEN q
             ELSE load_features(q, items, i + 1, Append(made, q.ret))

\* Part.data (setter): the original shape is replaced first; features and
\* transformations are assigned only when the comprehension has not raised.
\* The current shape is not assigned.
Part_data_setter(p, data) ==
    LET q == load_features([p EXCEPT !.original = data.shape], data.features, 1, <<>>)
    IN  IF q.error # "ok"
        THEN q
        ELSE [q EXCEPT !.features = q.ret,
                       !.transformations = data.transformations,
                       !.ret = -1]

\* Part() with no geometry: the base shape is an empty Polyhedron.
DefaultShape == MeshGeometry(0, "empty", <<>>)

\* Data.from_data: construct with no arguments, then assign data.
from_data(data) == Part_data_setter(Part(DefaultShape), data)

\* What a caller can read from a Part: the values of its shapes and its
\* feature records in order.
Observed(p) ==
    [original |-> Value(p.original),
     current |-> Value(p.current),
     features |-> Part_data(p).features,
     transformations |-> p.transformations]

\* What a dict lookup raises for a key it does not hold.
KeyError(key) == "KeyError: '" \o key \o "'"

\* Feature.data (setter): the operand is assigned before the operation name
\* is looked up in the ALLOWED_OPERATIONS of the Feature's class.
Feature_data_setter(p, f, value) ==
    LET q == [p EXCEPT !.heap[f].feature_geometry = value.feature_geometry]
    IN  IF value.operation \notin DOMAIN ALLOWED_OPERATIONS(p.heap[f].cls)
        THEN [q EXCEPT !.error = KeyError(value.operation)]
        ELSE [q EXCEPT !.heap[f].operation =
                           ALLOWED_OPERATIONS(p.heap[f].cls)[value.operation]]

\* MeshGeometry.data / BrepGeometry.data (setter) on a shape of the Part: the
\* wrapped geometry is replaced, the wrapper object stays.
Shape_data_setter(shape, value) ==
    [shape EXCEPT !.base = value.geometry.base, !.hist = value.geometry.hist]

\* The same setter on the operand a Feature holds.
Operand_data_setter(operand, value) ==
    [operand EXCEPT !.name = value.geometry]

\* The setter called on the shape object id: every reference to that object
\* (the original shape, the current shape, the snapshots) sees the change.
SetShape(p, id, value) ==
    LET set(shape) == IF shape.id = id THEN Shape_data_setter(shape, value) ELSE shape
    IN  [p EXCEPT !.original = set(@),
                  !.current = set(@),
                  !.heap = [f \in DOMAIN p.heap |->
                               [p.heap[f] EXCEPT !.previous_geometry = set(@)]]]

\* ---------------------------------------------------------------- actions
\* Object identities mean nothing beyond equal / not equal.  After each call
\* the shape objects are renumbered in a fixed order (the snapshots in the
\* order of the Features' construction, then the current shape); the original
\* shape stays 0 and None stays -1.  Aliasing is preserved.
Renumbered(owners, id) ==
    IF id \in {-1, 0}
    THEN id
    ELSE LET first == Min({j \in DOMAIN owners : owners[j] = id})
         IN  1 + Cardinality({owners[j] : j \in 1 .. first - 1} \ {-1, 0})

Canonical(p) ==
    LET owners == [f \in DOMAIN p.heap |-> p.heap[f].previous_geometry.id]
                      \o <<p.current.id>>
    IN  [p EXCEPT !.current.id = Renumbered(owners, @),
                  !.heap = [f \in DOMAIN p.heap |->
                                [p.heap[f] EXCEPT !.previous_geometry.id =
                                    Renumbered(owners, @)]]]

InstallPart(q, call, ret) ==
    \E c \in {Canonical(q)} :
        /\ original' = c.original
        /\ current' = c.current
        /\ features' = c.features
        /\ heap' = c.heap
        /\ transformations' = c.transformations
        /\ result' = [call |-> call, error |-> c.error, ret |-> ret]

\* A call made while no other call is running.
Install(q, call, ret) ==
    /\ InstallPart(q, call, ret)
    /\ UNCHANGED callers

WithinBounds(q) ==
    /\ Len(q.heap) <= MaxFeatures
    /\ Len(q.current.hist) <= MaxShapeLen

\* The kernel invocations of one call: all deliver (failAt = -1), or, when
\* kernels may fail, the one made for the feature at index failAt (0-based, in
\* the list being replayed) raises or returns nothing.
KernelRuns(kind, n, faults) ==
    {<<-1, "raise">>} \cup
        IF faults THEN (0 .. n - 1) \X (KernelOutcomes(kind) \ {"ok"}) ELSE {}

\* The same for a replay of the list feats of p: what the kernel of the
\* feature at an index can do instead of delivering depends on the class of
\* that Feature (only the trim of a BrepFeature can return nothing), whatever
\* the Part's shape is.
ReplayRuns(p, feats, faults) ==
    {<<-1, "raise">>} \cup
        IF faults
        THEN UNION {{<<i - 1, bad>> : bad \in
                        KernelOutcomes(IF p.heap[feats[i]].cls = "MeshFeature"
                                       THEN "MeshGeometry" ELSE "BrepGeometry")
                            \ {"ok"}} : i \in DOMAIN feats}
        ELSE {}

\* add_feature(geometry, operation); the kernel delivers unless run[1] = 0.
AddFeature(faults) ==
    \E geometry \in Operands, operation \in OperationNames :
      \E run \in KernelRuns(geometry.kind, 1, faults) :
        \E q \in {add_feature(Self, geometry, operation,
                               IF run[1] = 0 THEN run[2] ELSE "ok")} :
            /\ run[1] >= 0 => q.error \in {KernelError, NoResult}
            /\ WithinBounds(q)
            /\ Install(q, "add_feature", IF q.error = "ok" THEN q.ret ELSE -1)

\* clear_features(features_to_clear); the empty set is also the call without
\* argument.
ClearFeatures(faults) ==
    \E features_to_clear \in SUBSET DOMAIN heap :
      \E run \in ReplayRuns(Self, SelectSeq(features,
                                            LAMBDA f : f \notin features_to_clear),
                             faults) :
        \E q \in {clear_features(Self, features_to_clear, run[1], run[2])} :
            /\ run[1] >= 0 => q.error \in {KernelError, NoResult}
            /\ WithinBounds(q)
            /\ Install(q, "clear_features", -1)

ReplayAllFeatures(faults) ==
    \E run \in ReplayRuns(Self, features, faults) :
        \E q \in {replay_all_features(Self, run[1], run[2])} :
            /\ WithinBounds(q)
            /\ Install(q, "replay_all_features", -1)

\* Part.from_data(part.data): the Part itself is left alone, the caller gets
\* the reconstructed Part (or the exception).
FromData ==
    \E q \in {from_data(Part_data(Self))} :
        /\ result' = [call |-> "from_data", error |-> q.error, ret |-> Observed(q)]
        /\ UNCHANGED <<original, current, features, heap, transformations, callers>>

\* Shapes a Part is constructed with: a mesh, a brep.
InitialShapes == {MeshGeometry(0, "box", <<>>), BrepGeometry(0, "solid", <<>>)}

\* The data a caller assigns to a Part in use: the Part's own data, or the
\* data of another Part, new or with one transformation pushed.
DataSources ==
    {Part_data(Self)} \cup
        {Part_data(src) : src \in
            {Part(shape) : shape \in InitialShapes} \cup
                {transform(Part(shape), T) : shape \in InitialShapes, T \in Transforms}}

\* part.data = data
SetPartData ==
    \E data \in DataSources :
        \E q \in {Part_data_setter(Self, data)} :
            /\ WithinBounds(q)
            /\ Install(q, "Part.data", -1)

\* feature.data = {"feature_geometry": geometry, "operation": operation} on
\* a Feature the caller holds; ret is the Feature.
SetFeatureData ==
    \E f \in DOMAIN heap, geometry \in Operands, operation \in OperationNames :
        \E q \in {Feature_data_setter(Self, f, [feature_geometry |-> geometry,
                                                 operation |-> operation])} :
            Install(q, "Feature.data", f)

\* A geometry assigned to a shape in use.
OtherGeometry == [base |-> "other", hist |-> <<>>]

\* A geometry assigned to an operand in use: another mesh for a MeshGeometry,
\* another Frame for a BrepGeometry.
OtherOperand == "B"

\* shape.data = {"geometry": ...} on a shape object of the Part: its
\* original shape, its current shape or a Feature's snapshot.
SetShapeData ==
    \E id \in Live(Self) :
        \E q \in {SetShape(Self, id, [geometry |-> OtherGeometry])} :
            Install(q, "MeshGeometry.data", -1)

\* feature.feature_geometry.data = {"geometry": ...}; every call of
\* add_feature and every Feature.data is handed an operand object of its own,
\* so the operand is held by this Feature only.
SetOperandData ==
    \E f \in DOMAIN heap :
        \E q \in {[Self EXCEPT !.heap[f].feature_geometry =
                        Operand_data_setter(@, [geometry |-> OtherOperand])]} :
            Install(q, "MeshGeometry.data", f)

\* A caller constructs a Feature of the operand's feature class itself.
Construct ==
    \E operand \in Operands, operation \in OperationNames :
        \E q \in {Feature__init__(Self, FEATURE_CLASS(operand.kind), operand, operation)} :
            /\ WithinBounds(q)
            /\ Install(q, "Feature", IF q.error = "ok" THEN q.ret ELSE -1)

\* feature.apply(part) called on a Feature the caller holds; ret is the
\* Feature.
ApplyFeature ==
    \E f \in DOMAIN heap :
        \E outcome \in KernelOutcomes(IF heap[f].cls = "MeshFeature"
                                       THEN "MeshGeometry" ELSE "BrepGeometry") :
            \E q \in {apply(Self, f, outcome)} :
                /\ WithinBounds(q)
                /\ Install(q, "apply", f)

\* feature.restore() called on a Feature the caller holds; ret is the Feature.
Restore ==
    \E f \in DOMAIN heap :
        \E q \in {restore(Self, f)} :
            Install(q, "restore", f)

\* part.transform(T)
Transform ==
    \E T \in Transforms :
        /\ Len(transformations) < MaxTransforms
        /\ \E q \in {transform(Self, T)} :
               Install(q, "transform", -1)

\* part.transform(T), T one of several transformations
PushTransform ==
    \E T \in StackTransforms :
        /\ Len(transformations) < MaxStack
        /\ \E q \in {transform(Self, T)} :
               Install(q, "transform", -1)

\* part.geometry
GeometryRead ==
    \E q \in {Part_geometry(Self)} :
        Install(q, "geometry", q.ret)

Init ==
    \E shape \in InitialShapes :
        /\ original = Part(shape).original
        /\ current = Part(shape).current
        /\ features = <<>>
        /\ heap = <<>>
        /\ transformations = <<>>
        /\ result = [call |-> "__init__", error |-> "ok", ret |-> -1]
        /\ callers = NoCallers

\* Kernels may fail.
Next ==
    \/ AddFeature(TRUE)
    \/ ClearFeatures(TRUE)
    \/ ReplayAllFeatures(TRUE)
    \/ FromData

Spec == Init /\ [][Next]_vars

\* Every kernel invocation delivers a result.
NextReliable ==
    \/ AddFeature(FALSE)
    \/ ClearFeatures(FALSE)
    \/ ReplayAllFeatures(FALSE)
    \/ FromData

SpecReliable == Init /\ [][NextReliable]_vars

\* The Part's methods, with restore called on the Features add_feature
\* returned; the kernels deliver.
NextCaller ==
    \/ AddFeature(FALSE)
    \/ ClearFeatures(FALSE)
    \/ ReplayAllFeatures(FALSE)
    \/ Restore
    \/ Transform
    \/ GeometryRead

SpecCaller == Init /\ [][NextCaller]_vars

\* Features constructed by the caller next to those add_feature constructs;
\* the kernels deliver.
NextFeature ==
    \/ Construct
    \/ AddFeature(FALSE)
    \/ ClearFeatures(FALSE)
    \/ Restore
    \/ GeometryRead

SpecFeature == Init /\ [][NextFeature]_vars

\* The same, with apply called on the Features the caller holds.
NextApply ==
    \/ Construct
    \/ AddFeature(FALSE)
    \/ Restore
    \/ ApplyFeature

SpecApply == Init /\ [][NextApply]_vars

\* The Part's methods and restore on the Features add_feature returned; the
\* kernels deliver.
NextUndo ==
    \/ AddFeature(FALSE)
    \/ ClearFeatures(FALSE)
    \/ ReplayAllFeatures(FALSE)
    \/ Restore

SpecUndo == Init /\ [][NextUndo]_vars

\* Transformations pushed between calls of add_feature, clear_features and
\* restore; the kernels deliver.
NextStack ==
    \/ AddFeature(FALSE)
    \/ ClearFeatures(FALSE)
    \/ Restore
    \/ PushTransform

SpecStack == Init /\ [][NextStack]_vars

\* The data setters of the Part and of its Features, called between calls of
\* add_feature, clear_features and restore; the kernels deliver.
NextData ==
    \/ AddFeature(FALSE)
    \/ ClearFeatures(FALSE)
    \/ Restore
    \/ SetPartData
    \/ SetFeatureData

SpecData == Init /\ [][NextData]_vars

\* The data setters of the shapes and of the operands in use, called between
\* calls of add_feature, clear_features and restore; the kernels deliver.
NextGeometryData ==
    \/ AddFeature(FALSE)
    \/ ClearFeatures(FALSE)
    \/ Restore
    \/ SetShapeData
    \/ SetOperandData

SpecGeometryData == Init /\ [][NextGeometryData]_vars

\* Up to MaxListed Features on one Part, so that a removal can leave several.
WithinListed(q) ==
    /\ Len(q.heap) <= MaxListed
    /\ Len(q.current.hist) <= MaxListed

\* add_feature(geometry, operation); the kernel delivers.
AddListed ==
    \E geometry \in Operands, operation \in OperationNames :
        \E q \in {add_feature(Self, geometry, operation, "ok")} :
            /\ WithinListed(q)
            /\ Install(q, "add_feature", IF q.error = "ok" THEN q.ret ELSE -1)

\* clear_features(features_to_clear); the kernels deliver.
ClearListed ==
    \E features_to_clear \in SUBSET DOMAIN heap :
        \E q \in {clear_features(Self, features_to_clear, -1, "raise")} :
            /\ WithinListed(q)
            /\ Install(q, "clear_features", -1)

\* add_feature and clear_features on a Part of up to MaxListed features; the
\* kernels deliver.
NextListed ==
    \/ AddListed
    \/ ClearListed

SpecListed == Init /\ [][NextListed]_vars

\* Two callers, each running add_feature once on the same new Part, their
\* steps interleaved; either they use no lock, or each takes the Part's lock
\* before its call and gives it back after it.  The kernels deliver.
Acquire ==
    \E c \in Callers :
        /\ callers.lock = "free"
        /\ callers.at[c].pc = "idle"
        /\ callers' = [callers EXCEPT !.lock = c]
        /\ UNCHANGED <<original, current, features, heap, transformations, result>>

\* add_feature: the comparison of the classes, the construction of the
\* Feature, self.features.append(feature)
CallerAppend ==
    \E c \in Callers, operand \in Operands, operation \in OperationNames :
        /\ callers.at[c].pc = "idle"
        /\ callers.lock \in {"unused", c}
        /\ \E q \in {add_feature_append(Self, operand, operation)} :
               /\ InstallPart(q, "add_feature", -1)
               /\ callers' = [callers EXCEPT !.at[c].pc =
                                                 IF q.error = "ok" THEN "appended" ELSE "raised",
                                             !.at[c].feature =
                                                 IF q.error = "ok" THEN q.ret ELSE 0]

\* feature.apply(self): _store_previous_geometry
CallerStore ==
    \E c \in Callers :
        /\ callers.at[c].pc = "appended"
        /\ InstallPart(_store_previous_geometry(Self, callers.at[c].feature),
                       "add_feature", -1)
        /\ callers' = [callers EXCEPT !.at[c].pc = "stored"]

\* _apply_feature: the kernel is called with the Part's shape
CallerInvoke ==
    \E c \in Callers :
        /\ callers.at[c].pc = "stored"
        /\ callers' = [callers EXCEPT !.at[c].pc = "invoked",
                                      !.at[c].made = invoke(Self, callers.at[c].feature)]
        /\ UNCHANGED <<original, current, features, heap, transformations, result>>

\* _apply_feature: the kernel's result becomes the Part's shape; add_feature
\* returns
CallerInstall ==
    \E c \in Callers :
        /\ callers.at[c].pc = "invoked"
        /\ InstallPart(install(Self, callers.at[c].made), "add_feature",
                       callers.at[c].feature)
        /\ callers' = [callers EXCEPT !.at[c].pc = "done",
                                      !.at[c].made = NoCallers.at[c].made]

Release ==
    \E c \in Callers :
        /\ callers.lock = c
        /\ callers.at[c].pc \in {"done", "raised"}
        /\ callers' = [callers EXCEPT !.lock = "free"]
        /\ UNCHANGED <<original, current, features, heap, transformations, result>>

InitCallers ==
    \E shape \in InitialShapes, lock \in {"unused", "free"} :
        /\ original = Part(shape).original
        /\ current = Part(shape).current
        /\ features = <<>>
        /\ heap = <<>>
        /\ transformations = <<>>
        /\ result = [call |-> "__init__", error |-> "ok", ret |-> -1]
        /\ callers = [NoCallers EXCEPT !.lock = lock]

NextCallers ==
    \/ Acquire
    \/ CallerAppend
    \/ CallerStore
    \/ CallerInvoke
    \/ CallerInstall
    \/ Release

SpecCallers == InitCallers /\ [][NextCallers]_vars

\* ---------------------------------------------------------------- properties
Range(seq) == {seq[i] : i \in DOMAIN seq}

\* A Part on which add_feature was called once for each record of items, from
\* record i on, every kernel delivering.
RECURSIVE AddAll(_, _, _)
AddAll(p, items, i) ==
    IF i > Len(items)
    THEN p
    ELSE AddAll(add_feature(p, items[i].feature_geometry, items[i].operation, "ok"),
                items, i + 1)

\* A newly constructed Part with the given original shape, after add_feature
\* for each record of items in order.
FreshWith(shape, items) == AddAll(Part(shape), items, 1)

\* The features of p are applied in order: each snapshot is the shape the
\* earlier features make of the original shape, the current shape is the
\* shape all of them make of it.
AppliedInOrder(p) ==
    LET items == Part_data(p).features
    IN  /\ \A i \in 1 .. Len(p.features) :
              Value(p.heap[p.features[i]].previous_geometry)
                  = Value(FreshWith(p.original, SubSeq(items, 1, i - 1)).current)
        /\ Value(p.current) = Value(FreshWith(p.original, items).current)

\* C1: when the features of the Part are applied in order, clear_features(S)
\* for any S holding at least one listed feature succeeds (kernels delivering)
\* and leaves the current shape of a fresh Part, with the same original shape,
\* on which only the surviving features were added in the same order.
PartialRemovalReplay ==
    AppliedInOrder(Self) =>
        \A S \in SUBSET DOMAIN heap :
            S \cap Range(features) # {} =>
                LET q == clear_features(Self, S, -1, "raise")
                    survivors == SelectSeq(features, LAMBDA f : f \notin S)
                    items == [i \in 1 .. Len(survivors) |-> Feature_data(heap[survivors[i]])]
                IN  /\ q.error = "ok"
                    /\ Value(q.current) = Value(FreshWith(original, items).current)

\* A subset removal has just succeeded, and a feature that survived was
\* constructed after a removed, applied one (so it was replayed).
PartialRemovalWitness ==
    /\ result.call = "clear_features"
    /\ result.error = "ok"
    /\ features # <<>>
    /\ AppliedInOrder(Self)
    /\ \E f \in DOMAIN heap \ Range(features) :
           /\ heap[f].part
           /\ f < features[Len(features)]

\* C2: after successful calls only, the features are applied in order
\* (every snapshot is the replay of the earlier features onto the original
\* shape, the current shape the replay of all of them).
OrderingInvariant == AppliedInOrder(Self)

\* C3: a successful replay_all_features leaves the current shape equal in
\* value to the one it found.
ReplayDeterminism ==
    [][(result'.call = "replay_all_features" /\ result'.error = "ok")
          => Value(current') = Value(current)]_vars

\* C4: in every reachable state, clear_features with no argument (or an empty
\* collection) leaves no features and a current shape equal in value to the
\* original shape of a newly constructed Part; a second call changes neither.
FullReset ==
    LET q == clear_features(Self, {}, -1, "raise")
        again == clear_features(q, {}, -1, "raise")
    IN  /\ q.error = "ok"
        /\ q.features = <<>>
        /\ Value(q.current) = Value(Part(original).original)
        /\ again.error = "ok"
        /\ again.features = q.features
        /\ Value(again.current) = Value(q.current)

\* A full reset has just been made on a Part that had applied features.
FullResetWitness ==
    /\ result.call = "clear_features"
    /\ result.error = "ok"
    /\ features = <<>>
    /\ \E f \in DOMAIN heap : heap[f].previous_geometry.hist # <<>>
    /\ Value(current) = Value(original)

\* C5: a failed add_feature leaves the features list and the current shape as
\* they were.
AddFeatureAtomic ==
    [][(result'.call = "add_feature" /\ result'.error # "ok")
          => (features' = features /\ Value(current') = Value(current))]_vars

\* C6: add_feature with an operand of the kind the current shape does not
\* accept fails with the Type Mismatch error, whatever the operation name and
\* whatever the kernel would do, and changes nothing.
TypeCoherence ==
    \A geometry \in Operands, operation \in OperationNames :
        FEATURE_CLASS(geometry.kind) # FEATURE_CLASS(current.kind) =>
            \A outcome \in KernelOutcomes(geometry.kind) :
                LET q == add_feature(Self, geometry, operation, outcome)
                IN  /\ q.error = TypeMismatch
                    /\ q.features = features
                    /\ q.current = current
                    /\ q.heap = heap

\* A Part with features has just refused an operand with Type Mismatch.
TypeCoherenceWitness ==
    /\ result.call = "add_feature"
    /\ result.error = TypeMismatch
    /\ features # <<>>

\* C7: the snapshot of every listed feature is an object of its own: it is
\* not the current shape, not the original shape, and not the snapshot of
\* another listed feature.
SnapshotExclusivity ==
    \A i \in DOMAIN features :
        LET snapshot == heap[features[i]].previous_geometry
        IN  /\ snapshot # NoShape
            /\ snapshot.id # current.id
            /\ snapshot.id # original.id
            /\ \A j \in DOMAIN features \ {i} :
                   snapshot.id # heap[features[j]].previous_geometry.id

\* Features are listed, and the current shape is the very snapshot object of
\* a feature that clear_features has restored and removed.
SnapshotExclusivityWitness ==
    /\ result.call = "clear_features"
    /\ features # <<>>
    /\ \E f \in DOMAIN heap \ Range(features) :
           heap[f].previous_geometry.id = current.id

\* C8: a Part reconstructed from the data of this Part has a current shape
\* equal in value to this Part's and the same feature records in the same
\* order.
PersistenceRoundTrip ==
    result.call = "from_data" =>
        /\ result.error = "ok"
        /\ result.ret.current = Value(current)
        /\ result.ret.features = Part_data(Self).features

\* C9: clear_features(S) with a non-empty S none of whose members is listed
\* fails with Feature Not Found and leaves features, the current shape and
\* every feature (its snapshot included) as they were.
FeatureNotFoundUnchanged ==
    \A S \in (SUBSET DOMAIN heap) \ {{}} :
        S \cap Range(features) = {} =>
            \A run \in KernelRuns(current.kind, Len(features), TRUE) :
                LET q == clear_features(Self, S, run[1], run[2])
                IN  /\ q.error = FeatureNotFound
                    /\ q.features = features
                    /\ q.current = current
                    /\ q.heap = heap

\* clear_features has just failed with Feature Not Found on a Part that
\* lists a feature.
FeatureNotFoundWitness ==
    /\ result.call = "clear_features"
    /\ result.error = FeatureNotFound
    /\ features # <<>>

\* C10: replay_all_features on a Part with no features fails with Empty
\* History and leaves features, the current shape and every feature object
\* (no snapshot taken, so no apply began) as they were.
EmptyHistoryUnchanged ==
    features = <<>> =>
        \A run \in KernelRuns(current.kind, Len(heap), TRUE) :
            LET q == replay_all_features(Self, run[1], run[2])
            IN  /\ q.error = EmptyHistory
                /\ q.features = features
                /\ q.current = current
                /\ q.heap = heap

\* replay_all_features has just failed with Empty History on a Part whose
\* features were all removed.
EmptyHistoryWitness ==
    /\ result.call = "replay_all_features"
    /\ result.error = EmptyHistory
    /\ features = <<>>
    /\ heap # <<>>

\* C11: constructing a Feature with an operation name outside the set of its
\* kind ({union, difference, intersection} for a mesh feature, {trim} for a
\* brep feature) raises the Unknown Operation error and leaves the Part, its
\* features, its shape and every Feature as they were, whether the Feature is
\* constructed directly or by add_feature; add_feature then ends the same way
\* whatever the kernel would have done, so no kernel was invoked.  A name of
\* the set is accepted.
UnknownOperationFirst ==
    \A class_ \in {"MeshFeature", "BrepFeature"}, operand \in Operands,
       operation \in OperationNames \cup {"intersection"} :
        LET known == IF class_ = "MeshFeature"
                     THEN {"union", "difference", "intersection"}
                     ELSE {"trim"}
        IN  IF operation \in known
            THEN Feature__init__(Self, class_, operand, operation).error = "ok"
            ELSE /\ Feature__init__(Self, class_, operand, operation)
                        = [Self EXCEPT !.error = UnknownOperation]
                 /\ (class_ = FEATURE_CLASS(operand.kind)
                        /\ class_ = FEATURE_CLASS(current.kind))
                        => \A outcome \in KernelOutcomes(operand.kind) :
                               add_feature(Self, operand, operation, outcome)
                                   = [Self EXCEPT !.error = UnknownOperation]

\* A caller's construction of a Feature was refused for its operation name
\* while the Part had a feature.
UnknownOperationWitness ==
    /\ result.call = "Feature"
    /\ result.error = UnknownOperation
    /\ features # <<>>

\* C12: restore() on a Feature that was never applied (it has no part) raises
\* the Unassociated Feature error and changes nothing: the Part's shapes, its
\* features, its transformations and every Feature, this one included, are as
\* before.
UnassociatedRestore ==
    \A f \in DOMAIN heap :
        ~heap[f].part => restore(Self, f) = [Self EXCEPT !.error = UnassociatedFeature]

\* restore() was refused on a Feature the caller constructed, on a Part that
\* has a feature of its own.
UnassociatedRestoreWitness ==
    /\ result.call = "restore"
    /\ result.error = UnassociatedFeature
    /\ ~heap[result.ret].part
    /\ features # <<>>

\* C13: when the trim kernel returns an empty (or no) list of breps, apply of
\* a brep feature raises the No Result error and the Part's shape is still
\* the one it had before the apply; when the list is not empty, the shape
\* installed is the first brep of the list.
NoResultKeepsShape ==
    \A f \in DOMAIN heap :
        (heap[f].cls = "BrepFeature" /\ current.kind = "BrepGeometry") =>
            /\ apply(Self, f, "empty").error = NoResult
            /\ apply(Self, f, "empty").current = current
            /\ apply(Self, f, "ok").error = "ok"
            /\ apply(Self, f, "ok").current.kind = "BrepGeometry"
            /\ apply(Self, f, "ok").current.hist
                   = TrimKernel(heap[f].operation, current.hist,
                                heap[f].feature_geometry, "ok")[1]

\* add_feature on a brep Part ended with the No Result error.
NoResultWitness ==
    /\ result.call = "add_feature"
    /\ result.error = NoResult
    /\ current.kind = "BrepGeometry"
    /\ features # <<>>

\* C14: no call of add_feature, clear_features, replay_all_features, restore,
\* transform or a read of geometry changes the original shape, and the shape
\* the call leaves as the Part's current shape, a reset's included, is never
\* the original shape object itself.
BaselineImmutable ==
    [][original' = original /\ current'.id # original'.id]_vars

\* A reset was made on a Part that had features and a transformation: the
\* current shape has the original's value and is another object.
BaselineWitness ==
    /\ result.call = "clear_features"
    /\ result.error = "ok"
    /\ features = <<>>
    /\ heap # <<>>
    /\ transformations # <<>>
    /\ Value(current) = Value(original)
    /\ current.id # original.id

\* C15: when a kernel fails while a surviving feature is applied again inside
\* clear_features(subset) or inside replay_all_features, the Part's features
\* and the value of its current shape are what they were before the call.
ReplayAtomic ==
    [][(/\ result'.call \in {"clear_features", "replay_all_features"}
        /\ result'.error \in {KernelError, NoResult})
          => (features' = features /\ Value(current') = Value(current))]_vars

\* C16: reading the geometry of the Part returns the drawable of a copy of
\* the current shape moved to the Part's frame, and leaves the current shape,
\* the original shape, the features, every Feature with its snapshot and the
\* transformations as they were.
PureRead ==
    [][result'.call = "geometry"
          => /\ UNCHANGED <<original, current, features, heap, transformations>>
             /\ result'.error = "ok"
             /\ result'.ret = [base |-> current.base,
                               hist |-> Append(current.hist, <<"transform", WorldToFrame>>)]
      ]_vars

\* The geometry was read from a Part that has a feature, while the caller
\* holds a Feature that was never applied.
PureReadWitness ==
    /\ result.call = "geometry"
    /\ features # <<>>
    /\ \E f \in DOMAIN heap : ~heap[f].part

\* C17: apply called on a Part whose current shape accepts another feature
\* class than the Feature's own raises the Type Mismatch error and writes
\* neither the Feature's snapshot nor the Part's current shape.
ApplyChecksKind ==
    [][(/\ result'.call = "apply"
        /\ heap[result'.ret].cls # FEATURE_CLASS(current.kind))
          => (result'.error = TypeMismatch /\ heap' = heap
                 /\ Value(current') = Value(current))]_vars

\* C18: transform(T) on a Part holding a mesh or a brep shape puts T at the
\* front of the transformations and returns normally.
TransformReturns ==
    [][result'.call = "transform"
          => /\ result'.error = "ok"
             /\ \E T \in Transforms : transformations' = <<T>> \o transformations
      ]_vars

\* C19: with n features listed, a successful add_feature leaves n + 1;
\* clear_features without argument succeeds and leaves none; a successful
\* clear_features(S) leaves n - k, where k >= 1 is the number of listed
\* features that are members of S; replay_all_features leaves n, however it
\* ends; and add_feature (for some operand and operation, the kernel
\* delivering) and clear_features without argument succeed in every state.
StateMachine ==
    LET n == Len(features)
        listed(S) == Cardinality({i \in DOMAIN features : features[i] \in S})
    IN  /\ \A operand \in Operands, operation \in OperationNames :
              \A outcome \in KernelOutcomes(operand.kind) :
                  add_feature(Self, operand, operation, outcome).error = "ok"
                      => Len(add_feature(Self, operand, operation, outcome).features)
                             = n + 1
        /\ \E operand \in Operands, operation \in OperationNames :
              add_feature(Self, operand, operation, "ok").error = "ok"
        /\ clear_features(Self, {}, -1, "raise").error = "ok"
        /\ clear_features(Self, {}, -1, "raise").features = <<>>
        /\ \A S \in (SUBSET DOMAIN heap) \ {{}} :
              \A run \in KernelRuns(current.kind, n, TRUE) :
                  clear_features(Self, S, run[1], run[2]).error = "ok"
                      => /\ listed(S) >= 1
                         /\ Len(clear_features(Self, S, run[1], run[2]).features)
                                = n - listed(S)
        /\ \A run \in KernelRuns(current.kind, n, TRUE) :
              Len(replay_all_features(Self, run[1], run[2]).features) = n

\* A clear_features call succeeded on a Part with two features and left none.
StateMachineWitness ==
    /\ result.call = "clear_features"
    /\ result.error = "ok"
    /\ Len(heap) = 2
    /\ \A f \in DOMAIN heap : heap[f].part
    /\ features = <<>>
    /\ Value(current) = Value(heap[1].previous_geometry)

\* C20: after a successful add_feature(shape, op), features is the old list
\* with the returned Feature, a new one, appended at the end; the returned
\* Feature holds shape and op's kernel, its snapshot has the value the current
\* shape had before the call, it is associated with the Part, and the current
\* shape is what the kernel makes of the old current shape and shape.
AddFeaturePost ==
    \A operand \in Operands, operation \in OperationNames :
        LET q == add_feature(Self, operand, operation, "ok")
            made == IF current.kind = "MeshGeometry"
                    THEN Kernel(q.heap[q.ret].operation, current.hist, operand)
                    ELSE TrimKernel(q.heap[q.ret].operation, current.hist, operand, "ok")[1]
        IN  q.error = "ok" =>
              /\ q.ret \notin DOMAIN heap
              /\ q.features = Append(features, q.ret)
              /\ \A f \in DOMAIN heap : q.heap[f] = heap[f]
              /\ q.heap[q.ret].feature_geometry = operand
              /\ q.heap[q.ret].operation = ALLOWED_OPERATIONS(FEATURE_CLASS(current.kind))[operation]
              /\ Value(q.heap[q.ret].previous_geometry) = Value(current)
              /\ q.heap[q.ret].part
              /\ Value(q.current)
                     = [kind |-> current.kind, base |-> current.base, hist |-> made]

\* add_feature succeeded on a Part that had a feature: the returned Feature
\* is the second of the list.
AddFeaturePostWitness ==
    /\ result.call = "add_feature"
    /\ result.error = "ok"
    /\ Len(features) = 2
    /\ features[2] = result.ret
    /\ current.hist # heap[result.ret].previous_geometry.hist

\* The place of feature f in the list feats.
PlaceIn(feats, f) == CHOOSE i \in DOMAIN feats : feats[i] = f

\* C21: clear_features(S), S holding at least one listed feature, leaves as
\* features exactly the listed features that are not in S, each once (every
\* listed member of S is gone, nothing else is), in the relative order they
\* had in the old list, however the replay that follows ends; Features of S
\* that are not listed make no difference and no error.
OrderPreservingFilter ==
    \A S \in (SUBSET DOMAIN heap) \ {{}} :
        (\E i \in DOMAIN features : features[i] \in S) =>
            \A run \in KernelRuns(current.kind, Len(features), TRUE) :
                \E q \in {clear_features(Self, S, run[1], run[2])} :
                    /\ Range(q.features) = Range(features) \ S
                    /\ Len(q.features) = Cardinality(Range(features) \ S)
                    /\ \A i, j \in DOMAIN q.features :
                           i < j => PlaceIn(features, q.features[i])
                                        < PlaceIn(features, q.features[j])
                    /\ q.error # FeatureNotFound
                    /\ q = clear_features(Self, S \cap Range(features), run[1], run[2])

\* clear_features(S) removed the second of three listed features and kept
\* the first and the third, in this order.
OrderPreservingFilterWitness ==
    /\ result.call = "clear_features"
    /\ result.error = "ok"
    /\ Len(features) = 2
    /\ \E f \in DOMAIN heap :
           /\ f \notin Range(features)
           /\ features[1] < f
           /\ f < features[2]

\* The shape a Feature's kernel makes of a shape, when it delivers.
KernelResult(feature, hist) ==
    IF feature.cls = "MeshFeature"
    THEN Kernel(feature.operation, hist, feature.feature_geometry)
    ELSE TrimKernel(feature.operation, hist, feature.feature_geometry, "ok")[1]

\* The shape after the kernels of feats[i], ..., feats[j] ran once each, in
\* this order, starting from hist.
RECURSIVE KernelsInOrder(_, _, _, _, _)
KernelsInOrder(hist, hp, feats, i, j) ==
    IF i > j
    THEN hist
    ELSE KernelsInOrder(KernelResult(hp[feats[i]], hist), hp, feats, i + 1, j)

\* C22: clear_features(S), kernels delivering, with e the place of the
\* earliest listed member of S: the replay starts from that feature's
\* snapshot (the one restore), the features before e and the removed ones are
\* left as they were, snapshot included, and the kernel runs once for each
\* surviving feature that was after e, in list order, each taking as snapshot
\* the shape made so far, and for no other feature.
MinimalReplay ==
    \A S \in (SUBSET DOMAIN heap) \ {{}} :
        (\E i \in DOMAIN features : features[i] \in S) =>
            LET e == Min({i \in DOMAIN features : features[i] \in S})
                q == clear_features(Self, S, -1, "raise")
                kept == SelectSeq(features, LAMBDA f : f \notin S)
                start == heap[features[e]].previous_geometry
            IN  /\ q.error = "ok"
                /\ \A f \in DOMAIN heap :
                      (f \in S \/ f \notin Range(features)
                          \/ \E i \in 1 .. e - 1 : features[i] = f)
                          => q.heap[f] = heap[f]
                /\ \A k \in e .. Len(kept) :
                      q.heap[kept[k]].previous_geometry.hist
                          = KernelsInOrder(start.hist, heap, kept, e, k - 1)
                /\ q.current.hist = KernelsInOrder(start.hist, heap, kept, e, Len(kept))
                /\ q.current.base = start.base

\* clear_features(S) removed the first of two features: the second was
\* applied again, once, on the first one's snapshot.
MinimalReplayWitness ==
    /\ result.call = "clear_features"
    /\ result.error = "ok"
    /\ features = <<2>>
    /\ heap[2].previous_geometry.hist = heap[1].previous_geometry.hist
    /\ current.hist = KernelResult(heap[2], heap[1].previous_geometry.hist)

\* C23: replay_all_features on a Part with features, kernels delivering,
\* applies each listed feature once, in list order, starting from the current
\* shape of the time of the call and not from the original shape; each
\* feature takes as snapshot the shape made so far, so the first feature's
\* snapshot has the value the current shape had before the call.
ReplayFromCurrent ==
    features # <<>> =>
        LET q == replay_all_features(Self, -1, "raise")
        IN  /\ q.error = "ok"
            /\ q.features = features
            /\ q.current.hist
                   = KernelsInOrder(current.hist, heap, features, 1, Len(features))
            /\ \A k \in DOMAIN features :
                  q.heap[features[k]].previous_geometry.hist
                      = KernelsInOrder(current.hist, heap, features, 1, k - 1)
            /\ Value(q.heap[features[1]].previous_geometry) = Value(current)
            /\ \A f \in DOMAIN heap : f \notin Range(features) => q.heap[f] = heap[f]

\* replay_all_features succeeded and left the first feature with a snapshot
\* in which a kernel already ran: the replay did not start from the original
\* shape.
ReplayFromCurrentWitness ==
    /\ result.call = "replay_all_features"
    /\ result.error = "ok"
    /\ heap[features[1]].previous_geometry.hist # <<>>
    /\ Len(current.hist) > Len(features)

\* C24: restore() on a Feature that was applied makes the Feature's snapshot
\* the Part's current shape and changes nothing else: the features, the
\* original shape, the transformations and every Feature's operation,
\* operand and snapshot are as before.
RestoreInstallsSnapshot ==
    \A f \in DOMAIN heap :
        heap[f].part =>
            /\ restore(Self, f) = [Self EXCEPT !.current = heap[f].previous_geometry]
            /\ heap[f].previous_geometry # NoShape

\* restore() was called on a listed Feature: the Part's current shape is the
\* Feature's snapshot, and it is not the shape the features make.
RestoreInstallsSnapshotWitness ==
    /\ result.call = "restore"
    /\ result.error = "ok"
    /\ \E i \in DOMAIN features : features[i] = result.ret
    /\ current = heap[result.ret].previous_geometry
    /\ Len(current.hist) < Len(features)

\* C25: after any calls of add_feature, clear_features and
\* replay_all_features, failed ones included, every listed feature is of the
\* feature class the current shape accepts, and the current shape is of the
\* kind of the original shape.
KindInvariant ==
    /\ \A i \in DOMAIN features : heap[features[i]].cls = FEATURE_CLASS(current.kind)
    /\ current.kind = original.kind

\* A replay failed in a kernel on a Part with two features.
KindInvariantWitness ==
    /\ result.call = "replay_all_features"
    /\ result.error \in {KernelError, NoResult}
    /\ Len(features) = 2

\* C26: no call of add_feature, clear_features, replay_all_features or
\* restore changes the feature class, the operation or the operand of a
\* Feature that exists; a Feature's snapshot and part are all that is
\* written after its construction.
FeatureImmutable ==
    [][\A f \in DOMAIN heap :
          /\ f \in DOMAIN heap'
          /\ heap'[f].cls = heap[f].cls
          /\ heap'[f].operation = heap[f].operation
          /\ heap'[f].feature_geometry = heap[f].feature_geometry
      ]_vars

\* Two features were replayed: both hold a kernel of their class and the
\* operand they were made with.
FeatureImmutableWitness ==
    /\ result.call = "replay_all_features"
    /\ result.error = "ok"
    /\ Len(features) = 2
    /\ \A f \in DOMAIN heap :
          /\ heap[f].operation \in Range(ALLOWED_OPERATIONS(heap[f].cls))
          /\ heap[f].feature_geometry \in Operands

\* C27: in every state reached from a new Part by add_feature, clear_features
\* and replay_all_features, a Part without features has a current shape
\* equal in value to the original shape.
PristineInvariant ==
    features = <<>> => Value(current) = Value(original)

\* C28: restore() called on a Feature that clear_features removed from the
\* Part's features changes neither the Part's current shape nor its features.
DeadOnceRemoved ==
    [][(/\ result'.call = "restore"
        /\ heap[result'.ret].part
        /\ \A i \in DOMAIN features : features[i] # result'.ret)
          => (Value(current') = Value(current) /\ features' = features)]_vars

\* C30: each transform(T) puts T, and nothing else, at the front of the
\* transformations, although the rest of the call fails, so that after
\* transform(T1), ..., transform(Tk) they are <<Tk, ..., T1>>; add_feature,
\* clear_features and restore leave the transformations as they are, and so
\* would replay_all_features.
StackOrder ==
    [][/\ result'.call = "transform"
            => \E T \in StackTransforms : transformations' = <<T>> \o transformations
       /\ result'.call # "transform" => transformations' = transformations
       /\ replay_all_features(Self, -1, "raise").transformations = transformations
      ]_vars

\* transform(T1) and, later, transform(T2) were called on a Part with
\* features.
StackOrderWitness ==
    /\ result.call = "transform"
    /\ transformations = <<"T2", "T1">>
    /\ features # <<>>

\* C29: two callers run add_feature on one new Part.  When each holds the
\* Part's lock for the whole of its call, every interleaving in which both
\* calls return leaves both Features listed and the current shape, and each
\* snapshot, what the features applied once in list order make of the
\* original shape.  (Without a lock a state is reached where both are listed
\* and the current shape holds one of them only: LostUpdate.)
SerialisedAddsCompose ==
    (callers.lock # "unused" /\ \A c \in Callers : callers.at[c].pc = "done") =>
        /\ Len(features) = Cardinality(Callers)
        /\ \A c \in Callers : \E i \in DOMAIN features : features[i] = callers.at[c].feature
        /\ current.hist = KernelsInOrder(original.hist, heap, features, 1, Len(features))
        /\ \A k \in DOMAIN features :
              heap[features[k]].previous_geometry.hist
                  = KernelsInOrder(original.hist, heap, features, 1, k - 1)

\* Both calls returned, without a lock: both Features are listed and the
\* current shape is the work of one kernel invocation.
LostUpdate ==
    /\ callers.lock = "unused"
    /\ \A c \in Callers : callers.at[c].pc = "done"
    /\ Len(features) = 2
    /\ Len(current.hist) = 1

====
